---------------------------- MODULE Spec2Model ----------------------------
(***************************************************************************)
(* The camera-based heart-rate measurement controllers of the repository:  *)
(*                                                                         *)
(*   "V"  AIProcessingVisualizer                                           *)
(*        (components/analysis/ai-processing-visualizer.tsx)               *)
(*   "M"  HeartRateMonitor (src/unnamed/part_001)                          *)
(*                                                                         *)
(* Both are React function components.  A handler reads the state of the   *)
(* render that produced it; a setState call takes effect at the next       *)
(* render, a functional update (setX(prev => ...)) is applied to the       *)
(* latest value, and a ref (xRef.current) is plain mutable memory.  So an  *)
(* action reads the unprimed variables for every state value, also after   *)
(* an earlier set call of the same handler, and threads refs through LETs. *)
(* Each handler invocation (a click, a timer, an animation frame) is taken *)
(* from the current render.  For the animation frames this favours the     *)
(* code: requestAnimationFrame(processFrame) hands over the processFrame   *)
(* of the render that made the request, in which M's isRecording is still  *)
(* false, so that taken literally no frame of M gets past its first guard. *)
(*                                                                         *)
(* The camera signal is abstracted to the facts the detector extracts from *)
(* it: a sample is its serial number in the buffer's stream, and a sample  *)
(* is a crest when the conditioned signal has an above-threshold strict    *)
(* local maximum there.  The refractory rule, the index window and the     *)
(* estimators are computed as the code computes them.  Confidence values   *)
(* are held in hundredths of a percent.                                    *)
(*                                                                         *)
(* The signal-processing functions are also modelled on their own, on      *)
(* numeric windows and peak lists (the function calls at the end of the    *)
(* module): there a window is a sequence of small integers, a rational     *)
(* result is a pair of integers, and the one place where the rounding of   *)
(* IEEE doubles decides the result (the mean of equal intervals) is        *)
(* computed bit by bit.                                                    *)
(***************************************************************************)
EXTENDS Integers, Sequences, FiniteSets

(* ---------------------------- program constants ------------------------ *)
SAMPLING_RATE == 30
WINDOW_SIZE == 300
MIN_HR == 40
MAX_HR == 200
MEASUREMENT_DURATION == 15000
HISTORY_SIZE == 10
CALIBRATION_DURATION == 3000
NORMAL_HR_MIN == 60
NORMAL_HR_MAX == 100
\* V, processFrame: "if (elapsedTime > 3000 && measurementMode === 'finger')"
SPO2_WARM_UP == 3000
\* V, processFrame: "if (elapsedTime > 5000 && calculatedHrv > 0)"
SCORE_WARM_UP == 5000
\* V, toggleMeasurementMode: setTimeout(() => startCamera(), 300)
CAMERA_RESTART == 300
\* geminiService: constructor(maxHistoryLength: number = 10)
DEFAULT_MAX_HISTORY == 10
\* V, processFrame: "if (frameDataRef.current.length < 60)"
MIN_FRAMES == 60
\* V, startMeasurement: setTimeout(() => setPhase('measuring'), 3000)
CALIBRATION_TIMEOUT == 3000
\* V, processFrame: findPeaksEnhanced(processedData, 10, true) / findPeaks(.., 0.5, 10)
MIN_DISTANCE_V == 10
\* M, processFrame: findPeaks(normalized, 0.5, Math.floor(SAMPLING_RATE * 0.5))
MIN_DISTANCE_M == 15
\* V, stopMeasurement: "heartRate && confidence > 50"
END_FLOOR_V == 50
\* M, processFrame: "heartRate && confidence > 70"
END_FLOOR_M == 70
\* M, processFrame: "newConfidence > 50"
FRAME_FLOOR_M == 50
\* a state value that is null in the code (heartRate, hrv)
Null == -1
\* a number that is NaN in the code (0 / 0)
NaN == -2

(* -------------------------------- bounds ------------------------------- *)
\* the gap between two animation frames in normal operation, in ms
FrameMs == 30
\* the gap before a frame that was held back (a hidden tab, a slow device)
StallMs == 3000
\* the clock stops here
MaxNow == 15000
\* the user issues commands only within one frame of a multiple of this;
\* it is shorter than the calibration, so that a session can be stopped and
\* another started while the first one's calibration timeout is pending
CommandGridMs == 2400
\* the pulse signal has a crest every BeatPeriod samples
BeatPeriod == 20
\* the uneven signal has its crests BeatPeriod and BeatPeriod + BeatJitter
\* samples apart, in turn
BeatJitter == 6
\* the numeric windows handed to the peak detectors: their length, their
\* largest sample, and the largest minDistance
WindowLen == 9
MaxSample == 3
MaxMinDistance == 4
\* the length of the numeric windows handed to normalizeSignal
ShortLen == 4
\* the largest number of peaks handed to the estimators
MaxPeaks == 5
\* the largest HRV, in ms, handed to the scores
MaxHrv == 70
\* the calls of onResult that are followed, per handle
MaxResults == 2
\* a maxHistoryLength other than the default
ShortHistoryLength == 3

VARIABLES
    component,          \* "V" or "M": the component that is mounted
    signal,             \* what the camera sees: "flat", "pulse" or "uneven"
    now,                \* Date.now(), ms since mount
    cameraActive,       \* V
    measuring,          \* V
    isRecording,        \* M
    enhancedProcessing, \* V
    phase,
    heartRate,
    confidence,
    hrv,                \* V
    hrvData,            \* M
    quality,
    measurementHistory,
    localStorage,       \* M: the 'heartRateHistory' item
    frameDataRef,
    peaksRef,           \* V
    startTimeRef,       \* V: startTimeRef; M: measurementStartTimeRef
    rafPending,         \* V: requestAnimationFrameRef; M: animationFrameRef
    timers,             \* V: the due times of the pending calibration timeouts
    outcome,            \* the result reported at the end of a session
    exception,          \* an exception has escaped processFrame
    call,               \* the function call under study, outside a session
    spo2,               \* V
    heartScore,         \* V
    stressLevel,        \* V
    measurementMode,    \* V
    toast,              \* V: the last toast of startMeasurement or of
                        \* toggleMeasurementMode (those that end a session
                        \* are in outcome)
    cameraTimers,       \* V: the due times of the pending camera restarts
    analysis,           \* geminiService: the closure of the running
                        \* startContinuousVideoAnalysis, and what it did
    history,            \* GeminiConversationManager: the roles of history
    maxHistoryLength    \* GeminiConversationManager, Null before new

serviceVars == <<analysis, history, maxHistoryLength>>

vars == <<analysis, history, maxHistoryLength,
          call, spo2, heartScore, stressLevel, measurementMode, toast,
          cameraTimers, component, signal, now, cameraActive, measuring,
          isRecording, enhancedProcessing, phase, heartRate, confidence, hrv,
          hrvData, quality, measurementHistory, localStorage, frameDataRef,
          peaksRef, startTimeRef, rafPending, timers, outcome, exception>>

(* ------------------------------ arithmetic ----------------------------- *)
Min(a, b) == IF a < b THEN a ELSE b
Abs(a) == IF a < 0 THEN 0 - a ELSE a
Max(a, b) == IF a > b THEN a ELSE b

RECURSIVE SumSeq(_)
SumSeq(s) == IF s = <<>> THEN 0 ELSE Head(s) + SumSeq(Tail(s))

\* the sum of s[lo .. hi], by halves
RECURSIVE SumRange(_, _, _)
SumRange(s, lo, hi) ==
    IF lo > hi THEN 0
    ELSE IF lo = hi THEN s[lo]
    ELSE SumRange(s, lo, (lo + hi) \div 2)
             + SumRange(s, ((lo + hi) \div 2) + 1, hi)

RECURSIVE SqrtSearch(_, _, _)
SqrtSearch(n, lo, hi) ==
    IF lo >= hi THEN lo
    ELSE LET mid == (lo + hi + 1) \div 2
         IN IF mid * mid <= n THEN SqrtSearch(n, mid, hi)
            ELSE SqrtSearch(n, lo, mid - 1)

\* floor(sqrt(n)), the fixed-point stand-in of Math.sqrt
ISqrt(n) == SqrtSearch(n, 0, Min(n, 46340))

\* Math.round(num / den) for num >= 0, den > 0
RoundDiv(num, den) == (2 * num + den) \div (2 * den)

\* confidence in hundredths of a percent
Pct(p) == 100 * p

(* --------------------------- signal processing ------------------------- *)
\* The sample that the next frame pushes: samples are numbered as they
\* enter the buffer since it was last emptied.
NextSample(buf) == IF buf = <<>> THEN 1 ELSE buf[Len(buf)] + 1

\* The outcome of normalizeSignal / the filters / the threshold and the
\* five-point strict local maximum test of findPeaks at one sample: a flat
\* signal has no local maximum, a pulse has one every BeatPeriod samples,
\* an uneven signal one after BeatPeriod and one after BeatPeriod +
\* BeatJitter samples in turn.
IsCrest(s) ==
    \/ signal = "pulse" /\ s % BeatPeriod = 0
    \/ signal = "uneven" /\ s % (2 * BeatPeriod + BeatJitter) \in {0, BeatPeriod}

\* the indexes i of findPeaks' loop (i = 2 .. length - 3, 0-based) at which
\* the threshold and local-maximum conjuncts of its test hold
CrestIndexes(data) == {i \in 2 .. (Len(data) - 3) : IsCrest(data[i + 1])}

\* the loop of findPeaks over those indexes in ascending order: the
\* remaining conjunct "i - lastPeakIndex >= minDistance" and the two updates
RECURSIVE FindPeaksFrom(_, _, _, _)
FindPeaksFrom(crests, minDistance, lastPeakIndex, peaks) ==
    IF crests = {} THEN peaks
    ELSE LET i == CHOOSE c \in crests : \A d \in crests : c <= d
         IN IF i - lastPeakIndex >= minDistance
            THEN FindPeaksFrom(crests \ {i}, minDistance, i, Append(peaks, i))
            ELSE FindPeaksFrom(crests \ {i}, minDistance, lastPeakIndex, peaks)

\* findPeaks(data, 0.5, minDistance): the 0-based indexes of the peaks
FindPeaks(data, minDistance) ==
    FindPeaksFrom(CrestIndexes(data), minDistance, 0 - minDistance, <<>>)

\* findPeaksEnhanced(data, minDistance, true): the same scan; the quadratic
\* refinement (a - c) / (2 * (a - 2b + c)) of a crest with equal
\* neighbours a = c is 0
FindPeaksEnhanced(data, minDistance) ==
    FindPeaksFrom(CrestIndexes(data), minDistance, 0 - minDistance, <<>>)

Intervals(peaks) ==
    [i \in 1 .. (Len(peaks) - 1) |-> peaks[i + 1] - peaks[i]]

Squares(s) == [i \in 1 .. Len(s) |-> s[i] * s[i]]

\* n^2 times the variance of s
ScaledVariance(s) == Len(s) * SumSeq(Squares(s)) - SumSeq(s) * SumSeq(s)

\* stdDev / mean of s in thousandths
Variability(s) == (100 * ISqrt(100 * ScaledVariance(s))) \div SumSeq(s)

\* the interval filter shared by both estimators:
\*   |i - mean| <= 2 * stdDev && i > fps * 0.4 && i < fps * 1.5
ValidIntervals(intervals, fps) ==
    LET n == Len(intervals)
        S == SumSeq(intervals)
        D == ScaledVariance(intervals)
        Keep(i) == /\ (n * i - S) * (n * i - S) <= 4 * D
                   /\ 10 * i > 4 * fps
                   /\ 2 * i < 3 * fps
    IN SelectSeq(intervals, Keep)

\* Math.max(0, Math.min(100, 100 * (1 - variability) * (1 - densityError)))
\* in hundredths of a percent; densityError = |1 - peakDensity / (bpm / 60)|
\* with peakDensity = peakCount / (totalFrames / fps)
ConfidenceOf(variability, peakCount, totalFrames, fps, bpm) ==
    LET expected == totalFrames * bpm
        error == Abs(expected - 60 * peakCount * fps)
        product == (1000 - variability) * (expected - error)
    IN IF product <= 0 THEN 0
       ELSE Min(Pct(100), (10 * product) \div expected)

\* calculateHeartRate without its two early returns
CalculateHeartRateUnguarded(peaks, totalFrames, fps) ==
    IF Len(peaks) < 2 THEN [bpm |-> NaN, conf |-> NaN, threw |-> FALSE]
    ELSE LET intervals == Intervals(peaks)
             bpm == RoundDiv(fps * 60 * Len(intervals), SumSeq(intervals))
         IN [bpm |-> bpm,
             conf |-> ConfidenceOf(Variability(intervals), Len(peaks),
                                   totalFrames, fps, bpm),
             threw |-> FALSE]

\* M: calculateHeartRate; the confidence is not rounded
CalculateHeartRateM(peaks, totalFrames, fps) ==
    IF Len(peaks) < 3 THEN [bpm |-> 0, conf |-> 0, threw |-> FALSE]
    ELSE LET intervals == Intervals(peaks)
             valid == ValidIntervals(intervals, fps)
         IN IF Len(valid) < 2 THEN [bpm |-> 0, conf |-> 0, threw |-> FALSE]
            ELSE LET bpm == RoundDiv(fps * 60 * Len(valid), SumSeq(valid))
                 IN [bpm |-> bpm,
                     conf |-> ConfidenceOf(Variability(intervals), Len(peaks),
                                           totalFrames, fps, bpm),
                     threw |-> FALSE]

\* V: calculateHeartRate; returns Math.round(confidence)
CalculateHeartRate(peaks, totalFrames, fps) ==
    LET r == CalculateHeartRateM(peaks, totalFrames, fps)
    IN [r EXCEPT !.conf = Pct(RoundDiv(r.conf, 100))]

\* V: calculateHeartRateEnhanced.  It is declared at module scope and its
\* signalStrength reduction reads frameDataRef, a name that exists only
\* inside the component: evaluating the reducer for a peak below
\* totalFrames (every peak is) raises a ReferenceError.
CalculateHeartRateEnhanced(peaks, totalFrames, fps) ==
    IF Len(peaks) < 4 THEN [bpm |-> 0, conf |-> 0, threw |-> FALSE]
    ELSE LET valid == ValidIntervals(Intervals(peaks), fps)
         IN IF Len(valid) < 3 THEN [bpm |-> 0, conf |-> 0, threw |-> FALSE]
            \* with no peak below totalFrames signalStrength is 0, and so is
            \* the confidence
            ELSE [bpm |-> RoundDiv(fps * 60 * Len(valid), SumSeq(valid)),
                  conf |-> 0,
                  threw |-> \E k \in 1 .. Len(peaks) : peaks[k] < totalFrames]

\* calculateHRV without its test of the number of peaks
CalculateHRVUnguarded(peaks) ==
    LET intervals == Intervals(peaks)
        diffs == Intervals(intervals)
        tenths == ISqrt((100 * SumSeq(Squares(diffs))) \div Len(diffs))
    IN RoundDiv(1000 * tenths, 10 * SAMPLING_RATE)

\* V: calculateHRV(peaks): Math.round(rmssd) in ms, 0 below four peaks
CalculateHRV(peaks) ==
    IF Len(peaks) < 4 THEN 0
    ELSE LET intervals == Intervals(peaks)
             diffs == Intervals(intervals)
             \* rmssd = (1000 / SAMPLING_RATE) * sqrt(sum of diffs^2 / count)
             tenths == ISqrt((100 * SumSeq(Squares(diffs))) \div Len(diffs))
         IN RoundDiv(1000 * tenths, 10 * SAMPLING_RATE)

\* M: calculateHRV(peaks, fps) in whole ms and percent.  It does not test
\* the number of peaks: with no interval the mean, and with no successive
\* difference the mean square, is 0 / 0.
CalculateHRVM(peaks, fps) ==
    LET intervals == Intervals(peaks)
        diffs == Intervals(intervals)
        n == Len(intervals)
        nn50 == Cardinality({i \in 1 .. Len(diffs) : 1000 * Abs(diffs[i]) > 50 * fps})
    IN [sdnn |-> IF n = 0 THEN NaN
                 ELSE (100 * ISqrt(100 * ScaledVariance(intervals)))
                          \div (n * fps),
        rmssd |-> IF Len(diffs) = 0 THEN NaN
                  ELSE (100 * ISqrt((100 * SumSeq(Squares(diffs)))
                                        \div Len(diffs))) \div fps,
        pnn50 |-> IF n = 0 THEN NaN ELSE (100 * nn50) \div n]

\* M: detectQualityIssues(filtered, peaks); calculateSNR of a flat signal
\* is 0 (noise = 0), that of a pulse is taken to be 10 dB or more
DetectQualityIssues(peaks) ==
    LET intervals == Intervals(peaks)
    IN (IF signal = "flat" THEN {"Low signal quality"} ELSE {})
       \cup (IF Len(peaks) < 3 THEN {"Not enough heartbeats detected"} ELSE {})
       \cup (IF Len(intervals) > 0 /\ Variability(intervals) > 200
             THEN {"Irregular intervals detected"} ELSE {})

\* V, processFrame: the feedback computed for an accepted estimate
NewQuality(bpm, conf, peaks) ==
    (IF conf < Pct(30) THEN {"Low signal quality"} ELSE {})
    \cup (IF Len(peaks) < 5 THEN {"Not enough heartbeats detected"} ELSE {})
    \cup (IF bpm > NORMAL_HR_MAX THEN {"Elevated heart rate"} ELSE {})
    \cup (IF bpm < NORMAL_HR_MIN THEN {"Low heart rate"} ELSE {})
    \cup (IF conf > Pct(80) THEN {"Excellent signal"} ELSE {})

\* a per-frame estimate that takes every reading
AcceptedAny(bpm, conf) == TRUE

\* V, processFrame: "bpm >= MIN_HR && bpm <= MAX_HR && conf > 0"
AcceptedV(bpm, conf) == bpm >= MIN_HR /\ bpm <= MAX_HR /\ conf > 0

\* M, processFrame: "bpm >= MIN_HR && bpm <= MAX_HR && newConfidence > 50"
AcceptedM(bpm, conf) ==
    bpm >= MIN_HR /\ bpm <= MAX_HR /\ conf > Pct(FRAME_FLOOR_M)

\* V: calculateHeartScore, the score before Math.round, in quarters of a
\* point: 5 * (d / 10) is 2 * d quarters, (hrvValue - 20) / 4 is
\* hrvValue - 20 quarters
HeartScoreQuarters(bpm, hrvValue) ==
    LET byRate == IF bpm < NORMAL_HR_MIN
                  THEN 4 * 85 - 2 * (NORMAL_HR_MIN - bpm)
                  ELSE IF bpm > NORMAL_HR_MAX
                  THEN 4 * 85 - 2 * (bpm - NORMAL_HR_MAX)
                  ELSE IF bpm >= 60 /\ bpm <= 70 THEN 4 * 85 + 4 * 5
                  ELSE 4 * 85
        byHrv == IF hrvValue < 20 THEN byRate - 4 * 10
                 ELSE IF hrvValue >= 20 /\ hrvValue <= 60
                 THEN byRate + (hrvValue - 20)
                 ELSE byRate
    IN Min(4 * 100, Max(0, byHrv))

\* V: calculateHeartScore; Math.round rounds a half upwards
calculateHeartScore(bpm, hrvValue) ==
    LET score == HeartScoreQuarters(bpm, hrvValue)
    IN [score |-> (score + 2) \div 4,
        interpretation |-> IF score >= 4 * 90 THEN "Excellent"
                           ELSE IF score >= 4 * 75 THEN "Good"
                           ELSE IF score >= 4 * 60 THEN "Fair"
                           ELSE IF score >= 4 * 40 THEN "Poor"
                           ELSE "Concerning"]

\* V: calculateStressLevel, the stress score before Math.round, in tenths
StressScoreTenths(bpm, hrvValue) ==
    LET byRate == IF bpm > NORMAL_HR_MAX THEN 15 * (bpm - NORMAL_HR_MAX)
                  ELSE 0
        byHrv == IF hrvValue < 50 THEN byRate + 12 * (50 - hrvValue)
                 ELSE byRate
    IN Min(10 * 100, Max(0, byHrv))

\* V: calculateStressLevel
calculateStressLevel(bpm, hrvValue) ==
    LET stressScore == StressScoreTenths(bpm, hrvValue)
    IN [level |-> IF stressScore < 10 * 30 THEN "low"
                  ELSE IF stressScore < 10 * 60 THEN "medium"
                  ELSE "high",
        score |-> (stressScore + 5) \div 10]

\* V: calculateSpO2 on 60 frames or more in finger mode: the value has a
\* random part (Math.random); it is reported if its confidence is above 30.
\* With one value the smoothing prev * 0.7 + value * 0.3 returns it.
Spo2Readings == {97}

(* ------------------------------- history ------------------------------- *)
Measurement(t, hr, conf) ==
    [timestamp |-> t, heartRate |-> hr, confidence |-> conf]

\* M: what the mount effect loads from localStorage: k earlier measurements,
\* newest first, taken before the component was mounted
StoredHistory(k) == [i \in 1 .. k |-> Measurement(0 - i, 72, Pct(90))]

\* saveMeasurement without its slice
SaveMeasurementUncapped(prev, measurement) == <<measurement>> \o prev

\* M, saveMeasurement: [measurement, ...prev].slice(0, HISTORY_SIZE)
SaveMeasurement(prev, measurement) ==
    SubSeq(<<measurement>> \o prev, 1, Min(Len(prev) + 1, HISTORY_SIZE))

\* V, saveToHistory, called by a handler that saw heart rate hr, confidence
\* conf and phase ph at time t
SaveToHistory(prev, hr, conf, ph, t) ==
    IF hr = Null \/ ph # "complete" THEN prev
    ELSE Append(prev, Measurement(t, hr, conf))

\* V, stopMeasurement: "heartRate && confidence > 50"
ReliableV(hr, conf) == hr # Null /\ conf > Pct(END_FLOOR_V)

\* the end of a session without its test of the reading
ReliableMUntested(hr, conf) == TRUE

\* M, processFrame at the end of the session: "heartRate && confidence > 70"
ReliableM(hr, conf) == hr # Null /\ conf > Pct(END_FLOOR_M)

\* an end of session that announces success whatever the reading
OutcomeSuccess(reliable) == "success"

\* the announcement that closes a session
Outcome(reliable) == IF reliable THEN "success" ELSE "retry"

(* ------------------------------ the clock ------------------------------ *)
\* a timeout that is due runs before the clock moves on
TimeMayPass == \A due \in timers \cup cameraTimers : due > now

\* the user acts within one frame of a multiple of CommandGridMs
UserMayAct == now % CommandGridMs < FrameMs

\* the gaps at which the next frame can come: the first frame of a buffer
\* may be held back while the camera, the torch and the speech synthesiser
\* start up
FrameGaps == IF frameDataRef = <<>> THEN {FrameMs, StallMs} ELSE {FrameMs}

NullHrv == [sdnn |-> Null, rmssd |-> Null, pnn50 |-> Null]

\* no heart score, no stress level (null)
NullScore == [score |-> Null, interpretation |-> "none"]
NullStress == [level |-> "none", score |-> Null]

\* no function call is under study
NoCall == [fn |-> "none"]

\* startContinuousVideoAnalysis has not been called
NoAnalysis ==
    [intervalId |-> "none", isAnalyzing |-> FALSE, stopped |-> FALSE,
     onResult |-> 0]

(* ------------------------------- Init ---------------------------------- *)
Init ==
    /\ component \in {"V", "M"}
    /\ signal \in {"flat", "pulse", "uneven"}
    /\ now = 0
    /\ cameraActive = FALSE
    /\ measuring = FALSE
    /\ isRecording = FALSE
    /\ enhancedProcessing = TRUE
    /\ phase = IF component = "V" THEN "idle" ELSE "calibrating"
    /\ heartRate = Null
    /\ confidence = 0
    /\ hrv = Null
    /\ hrvData = NullHrv
    /\ quality = {}
    /\ measurementHistory \in
           IF component = "V" THEN {<<>>}
           ELSE {StoredHistory(0), StoredHistory(HISTORY_SIZE)}
    /\ localStorage = measurementHistory
    /\ frameDataRef = <<>>
    /\ peaksRef = <<>>
    /\ startTimeRef = 0
    /\ rafPending = FALSE
    /\ timers = {}
    /\ outcome = "none"
    /\ exception = FALSE
    /\ call = NoCall
    /\ spo2 = Null
    /\ heartScore = NullScore
    /\ stressLevel = NullStress
    /\ measurementMode = "finger"
    /\ toast = "none"
    /\ cameraTimers = {}
    /\ analysis = NoAnalysis
    /\ history = <<>>
    /\ maxHistoryLength = Null

(* ------------------- V: AIProcessingVisualizer ------------------------- *)
\* startCamera, when getUserMedia succeeds
StartCamera ==
    /\ component = "V" /\ ~cameraActive /\ UserMayAct
    /\ cameraActive' = TRUE
    /\ UNCHANGED serviceVars
    /\ UNCHANGED <<call, spo2, heartScore, stressLevel, measurementMode, toast,
                   cameraTimers, component, signal, now, measuring, isRecording,
                   enhancedProcessing, phase, heartRate, confidence, hrv,
                   hrvData, quality, measurementHistory, localStorage,
                   frameDataRef, peaksRef, startTimeRef, rafPending, timers,
                   outcome, exception>>

\* The platform's frame scheduler hands the camera's frames to processFrame;
\* from then on processFrame re-requests itself.  Nothing hands them over
\* again after an exception has ended the loop.
FrameLoopStart ==
    /\ component = "V" /\ cameraActive /\ ~rafPending /\ ~exception
    /\ rafPending' = TRUE
    /\ UNCHANGED serviceVars
    /\ UNCHANGED <<call, spo2, heartScore, stressLevel, measurementMode, toast,
                   cameraTimers, component, signal, now, cameraActive, measuring,
                   isRecording, enhancedProcessing, phase, heartRate,
                   confidence, hrv, hrvData, quality, measurementHistory,
                   localStorage, frameDataRef, peaksRef, startTimeRef, timers,
                   outcome, exception>>

\* startMeasurement: toast.info(...), by the measurement mode
StartToast(mode) ==
    IF mode = "finger"
    THEN "Place your finger over the camera lens and hold still"
    ELSE "Position your face in the center of the camera and stay still"

\* startMeasurement, from the Start button (shown while the camera is on and
\* no measurement runs)
StartMeasurement ==
    /\ component = "V" /\ ~measuring /\ UserMayAct
    /\ cameraActive
    /\ frameDataRef' = <<>>
    /\ peaksRef' = <<>>
    /\ startTimeRef' = now
    /\ phase' = "calibrating"
    /\ measuring' = TRUE
    /\ heartRate' = Null
    /\ confidence' = 0
    /\ hrv' = Null
    /\ timers' = timers \cup {now + CALIBRATION_TIMEOUT}
    /\ outcome' = "none"
    /\ spo2' = Null
    /\ heartScore' = NullScore
    /\ stressLevel' = NullStress
    /\ toast' = StartToast(measurementMode)
    /\ UNCHANGED serviceVars
    /\ UNCHANGED <<call, measurementMode, cameraTimers, component, signal, now, cameraActive, isRecording,
                   enhancedProcessing, hrvData, quality, measurementHistory,
                   localStorage, rafPending, exception>>

\* the calibration timeout of startMeasurement: () => setPhase('measuring')
CalibrationTimeout ==
    /\ component = "V"
    /\ \E due \in timers :
          /\ due <= now
          /\ timers' = timers \ {due}
    /\ phase' = "measuring"
    /\ UNCHANGED serviceVars
    /\ UNCHANGED <<call, spo2, heartScore, stressLevel, measurementMode, toast,
                   cameraTimers, component, signal, now, cameraActive, measuring,
                   isRecording, enhancedProcessing, heartRate, confidence,
                   hrv, hrvData, quality, measurementHistory, localStorage,
                   frameDataRef, peaksRef, startTimeRef, rafPending, outcome,
                   exception>>

\* stopMeasurement, run at time t by a handler of the current render
StopMeasurementAt(t) ==
    /\ measuring' = FALSE
    /\ phase' = "complete"
    /\ outcome' = Outcome(ReliableV(heartRate, confidence))
    /\ measurementHistory' =
           IF ReliableV(heartRate, confidence)
           THEN SaveToHistory(measurementHistory, heartRate, confidence,
                              phase, t)
           ELSE measurementHistory

\* the Stop button (shown while the camera is on and a measurement runs)
StopMeasurement ==
    /\ component = "V" /\ cameraActive /\ measuring /\ UserMayAct
    /\ StopMeasurementAt(now)
    /\ UNCHANGED serviceVars
    /\ UNCHANGED <<call, spo2, heartScore, stressLevel, measurementMode, toast,
                   cameraTimers, component, signal, now, cameraActive, isRecording,
                   enhancedProcessing, heartRate, confidence, hrv, hrvData,
                   quality, localStorage, frameDataRef, peaksRef,
                   startTimeRef, rafPending, timers, exception>>

\* toggleEnhancedProcessing
ToggleEnhancedProcessing ==
    /\ component = "V" /\ UserMayAct
    /\ enhancedProcessing' = ~enhancedProcessing
    /\ UNCHANGED serviceVars
    /\ UNCHANGED <<call, spo2, heartScore, stressLevel, measurementMode, toast,
                   cameraTimers, component, signal, now, cameraActive, measuring,
                   isRecording, phase, heartRate, confidence, hrv, hrvData,
                   quality, measurementHistory, localStorage, frameDataRef,
                   peaksRef, startTimeRef, rafPending, timers, outcome,
                   exception>>

\* processFrame: "elapsedTime > 3000", "elapsedTime > 5000"
WarmedUpAlways(elapsedTime, threshold) == TRUE
WarmedUp(elapsedTime, threshold) == elapsedTime > threshold

\* processFrame, gap ms after the previous event
ProcessFrame(gap) ==
    /\ component = "V" /\ rafPending /\ TimeMayPass
    /\ now + gap <= MaxNow
    /\ now' = now + gap
    /\ UNCHANGED serviceVars
    /\ UNCHANGED <<call, measurementMode, toast, cameraTimers, component, signal, cameraActive, isRecording,
                   enhancedProcessing, hrvData, localStorage, startTimeRef,
                   timers>>
    /\ IF ~cameraActive
       THEN \* "if (!videoRef.current || !canvasRef.current || !cameraActive) return"
            /\ rafPending' = FALSE
            /\ UNCHANGED <<spo2, heartScore, stressLevel, measuring, phase,
                           heartRate, confidence, hrv,
                           quality, measurementHistory, frameDataRef,
                           peaksRef, outcome, exception>>
       ELSE
       \E data \in {LET pushed == Append(frameDataRef, NextSample(frameDataRef))
                     IN IF Len(pushed) > WINDOW_SIZE
                        THEN SubSeq(pushed, Len(pushed) - WINDOW_SIZE + 1,
                                    Len(pushed))
                        ELSE pushed} :
       \E peaks \in {IF Len(data) < MIN_FRAMES THEN <<>>
                      ELSE IF enhancedProcessing
                      THEN FindPeaksEnhanced(data, MIN_DISTANCE_V)
                      ELSE FindPeaks(data, MIN_DISTANCE_V)} :
       \E estimate \in {IF enhancedProcessing
                         THEN CalculateHeartRateEnhanced(peaks, Len(data),
                                                         SAMPLING_RATE)
                         ELSE CalculateHeartRate(peaks, Len(data),
                                                 SAMPLING_RATE)} :
       LET elapsedTime == now' - startTimeRef
           bpm == estimate.bpm
           conf == estimate.conf
           accepted == AcceptedV(bpm, conf)
           calculatedHrv == CalculateHRV(peaks)
       IN /\ frameDataRef' = data
          /\ IF Len(data) < MIN_FRAMES
             THEN /\ rafPending' = TRUE
                  /\ UNCHANGED <<spo2, heartScore, stressLevel, measuring, phase,
                           heartRate, confidence, hrv,
                                 quality, measurementHistory, peaksRef,
                                 outcome, exception>>
             ELSE
             /\ peaksRef' = peaks
             /\ IF ~measuring
                THEN /\ rafPending' = TRUE
                     /\ UNCHANGED <<spo2, heartScore, stressLevel, measuring, phase,
                           heartRate, confidence,
                                    hrv, quality, measurementHistory, outcome,
                                    exception>>
                ELSE IF estimate.threw
                THEN \* the ReferenceError leaves processFrame: nothing after
                     \* the call runs, and the frame is not requested again
                     /\ exception' = TRUE
                     /\ rafPending' = FALSE
                     /\ UNCHANGED <<spo2, heartScore, stressLevel, measuring, phase,
                           heartRate, confidence,
                                    hrv, quality, measurementHistory, outcome>>
                ELSE
                /\ heartRate' = IF accepted THEN bpm ELSE heartRate
                /\ confidence' = IF accepted THEN conf ELSE confidence
                /\ hrv' = IF accepted THEN calculatedHrv ELSE hrv
                /\ spo2' \in IF accepted /\ WarmedUp(elapsedTime, SPO2_WARM_UP)
                                 /\ measurementMode = "finger"
                              THEN {spo2} \cup Spo2Readings
                              ELSE {spo2}
                /\ heartScore' =
                       IF accepted /\ WarmedUp(elapsedTime, SCORE_WARM_UP)
                          /\ calculatedHrv > 0
                       THEN calculateHeartScore(bpm, calculatedHrv)
                       ELSE heartScore
                /\ stressLevel' =
                       IF accepted /\ WarmedUp(elapsedTime, SCORE_WARM_UP)
                          /\ calculatedHrv > 0
                       THEN calculateStressLevel(bpm, calculatedHrv)
                       ELSE stressLevel
                /\ quality' = IF accepted THEN NewQuality(bpm, conf, peaks)
                              ELSE quality
                /\ IF elapsedTime >= MEASUREMENT_DURATION
                   THEN StopMeasurementAt(now')
                   ELSE UNCHANGED <<measuring, phase, measurementHistory,
                                    outcome>>
                /\ rafPending' = TRUE
                /\ UNCHANGED exception

(* ----------------------- M: HeartRateMonitor --------------------------- *)
\* stopRecording: cancelAnimationFrame(animationFrameRef.current)
StopRecordingEffect ==
    /\ isRecording' = FALSE
    /\ rafPending' = FALSE

\* startRecording, from the Start button (shown while not recording)
StartRecording ==
    /\ component = "M" /\ ~isRecording /\ UserMayAct
    /\ isRecording' = TRUE
    /\ frameDataRef' = <<>>
    /\ startTimeRef' = now
    /\ heartRate' = Null
    /\ confidence' = 0
    /\ rafPending' = TRUE
    /\ outcome' = "none"
    /\ UNCHANGED serviceVars
    /\ UNCHANGED <<call, spo2, heartScore, stressLevel, measurementMode, toast,
                   cameraTimers, component, signal, now, cameraActive, measuring,
                   enhancedProcessing, phase, hrv, hrvData, quality,
                   measurementHistory, localStorage, peaksRef, timers,
                   exception>>

\* stopRecording, from the Stop button (shown while recording)
StopRecording ==
    /\ component = "M" /\ isRecording /\ UserMayAct
    /\ StopRecordingEffect
    /\ UNCHANGED serviceVars
    /\ UNCHANGED <<call, spo2, heartScore, stressLevel, measurementMode, toast,
                   cameraTimers, component, signal, now, cameraActive, measuring,
                   enhancedProcessing, phase, heartRate, confidence, hrv,
                   hrvData, quality, measurementHistory, localStorage,
                   frameDataRef, peaksRef, startTimeRef, timers, outcome,
                   exception>>

\* the Save button, shown while a heart rate is displayed
SaveClick ==
    /\ component = "M" /\ heartRate # Null /\ UserMayAct
    /\ measurementHistory' =
           SaveMeasurement(measurementHistory,
                           Measurement(now, heartRate, confidence))
    /\ localStorage' = measurementHistory'
    /\ UNCHANGED serviceVars
    /\ UNCHANGED <<call, spo2, heartScore, stressLevel, measurementMode, toast,
                   cameraTimers, component, signal, now, cameraActive, measuring,
                   isRecording, enhancedProcessing, phase, heartRate,
                   confidence, hrv, hrvData, quality, frameDataRef, peaksRef,
                   startTimeRef, rafPending, timers, outcome, exception>>

\* processFrame, gap ms after the previous event
ProcessFrameM(gap) ==
    /\ component = "M" /\ rafPending /\ TimeMayPass
    /\ now + gap <= MaxNow
    /\ now' = now + gap
    /\ UNCHANGED serviceVars
    /\ UNCHANGED <<call, spo2, heartScore, stressLevel, measurementMode, toast,
                   cameraTimers, component, signal, cameraActive, measuring,
                   enhancedProcessing, hrv, peaksRef, startTimeRef, timers,
                   exception>>
    /\ IF ~isRecording
       THEN \* "if (!videoRef.current || !canvasRef.current || !isRecording) return"
            /\ rafPending' = FALSE
            /\ UNCHANGED <<isRecording, phase, heartRate, confidence, hrvData,
                           quality, measurementHistory, localStorage,
                           frameDataRef, outcome>>
       ELSE
       \E pushed \in {Append(frameDataRef, NextSample(frameDataRef))} :
       \E calibrated \in {phase = "calibrating"
                           /\ now' - startTimeRef >= CALIBRATION_DURATION} :
       \E data \in {IF calibrated THEN <<>> ELSE pushed} :
       \E processed \in {Len(data) >= WINDOW_SIZE} :
       \E peaks \in {IF processed THEN FindPeaks(data, MIN_DISTANCE_M)
                      ELSE <<>>} :
       \E estimate \in {CalculateHeartRateM(peaks, WINDOW_SIZE,
                                             SAMPLING_RATE)} :
       LET elapsedTime == now' - startTimeRef
           bpm == estimate.bpm
           newConfidence == estimate.conf
           accepted == processed /\ AcceptedM(bpm, newConfidence)
           reliable == ReliableM(heartRate, confidence)
       IN IF phase = "calibrating" /\ elapsedTime < CALIBRATION_DURATION
          THEN \* setCalibrationProgress(progress); return: the frame is not
               \* requested again
               /\ frameDataRef' = pushed
               /\ rafPending' = FALSE
               /\ UNCHANGED <<isRecording, phase, heartRate, confidence,
                              hrvData, quality, measurementHistory,
                              localStorage, outcome>>
          ELSE
          /\ frameDataRef' = data
          /\ quality' = IF processed THEN DetectQualityIssues(peaks)
                        ELSE quality
          /\ heartRate' = IF accepted THEN bpm ELSE heartRate
          /\ confidence' = IF accepted THEN newConfidence ELSE confidence
          /\ hrvData' = IF accepted THEN CalculateHRVM(peaks, SAMPLING_RATE)
                        ELSE hrvData
          /\ IF elapsedTime >= MEASUREMENT_DURATION
             THEN /\ phase' = IF reliable THEN "complete"
                              ELSE IF calibrated THEN "measuring" ELSE phase
                  /\ measurementHistory' =
                         IF reliable
                         THEN SaveMeasurement(measurementHistory,
                                  Measurement(now', heartRate, confidence))
                         ELSE measurementHistory
                  /\ localStorage' = IF reliable THEN measurementHistory'
                                     ELSE localStorage
                  /\ outcome' = Outcome(reliable)
                  /\ StopRecordingEffect
             ELSE /\ phase' = IF calibrated THEN "measuring" ELSE phase
                  /\ rafPending' = TRUE
                  /\ UNCHANGED <<isRecording, measurementHistory,
                                 localStorage, outcome>>

(* ------------------------------ idle time ------------------------------ *)
\* the next instant at which something can happen without a frame: the
\* user may act, a timeout is due, or the clock stops
NextInstant ==
    LET grid == (now \div CommandGridMs + 1) * CommandGridMs
        instants == {grid, MaxNow} \cup timers \cup cameraTimers
    IN CHOOSE t \in instants : \A u \in instants : t <= u

\* with no frame requested, and none about to be handed over, the clock
\* runs on to the next instant
Tick ==
    /\ ~rafPending /\ TimeMayPass
    /\ component = "V" /\ cameraActive => exception
    /\ now < MaxNow
    /\ now' = NextInstant
    /\ UNCHANGED serviceVars
    /\ UNCHANGED <<call, spo2, heartScore, stressLevel, measurementMode, toast,
                   cameraTimers, component, signal, cameraActive, measuring, isRecording,
                   enhancedProcessing, phase, heartRate, confidence, hrv,
                   hrvData, quality, measurementHistory, localStorage,
                   frameDataRef, peaksRef, startTimeRef, rafPending, timers,
                   outcome, exception>>

Next ==
    \/ StartCamera
    \/ FrameLoopStart
    \/ StartMeasurement
    \/ CalibrationTimeout
    \/ StopMeasurement
    \/ ToggleEnhancedProcessing
    \/ \E gap \in FrameGaps : ProcessFrame(gap)
    \/ StartRecording
    \/ StopRecording
    \/ SaveClick
    \/ \E gap \in FrameGaps : ProcessFrameM(gap)
    \/ Tick

Spec == Init /\ [][Next]_vars

\* Frames that are requested are delivered, timeouts that are due run, and
\* the clock does not stand still.
FairSpec ==
    /\ Spec
    /\ WF_vars(Tick)
    /\ WF_vars(FrameLoopStart)
    /\ WF_vars(CalibrationTimeout)
    /\ WF_vars(\E gap \in FrameGaps : ProcessFrame(gap))
    /\ WF_vars(\E gap \in FrameGaps : ProcessFrameM(gap))

(* ---------------------- the operations as an interface ---------------- *)
\* stopMeasurement / stopRecording called while no session runs.  The
\* buttons of the current render never do that (the button is the Start
\* button then); a caller that holds the handler does: neither handler
\* tests the state it is called in.
StopWhenIdle ==
    /\ UserMayAct
    /\ IF component = "V"
       THEN /\ ~measuring /\ phase = "idle"
            /\ StopMeasurementAt(now)
            /\ UNCHANGED <<isRecording, rafPending>>
       ELSE /\ ~isRecording
            /\ StopRecordingEffect
            /\ UNCHANGED <<measuring, phase, outcome, measurementHistory>>
    /\ UNCHANGED serviceVars
    /\ UNCHANGED <<call, spo2, heartScore, stressLevel, measurementMode, toast,
                   cameraTimers, component, signal, now, cameraActive,
                   enhancedProcessing, heartRate, confidence, hrv, hrvData,
                   quality, localStorage, frameDataRef, peaksRef,
                   startTimeRef, timers, exception>>

ApiNext == Next \/ StopWhenIdle

\* the sessions of Spec, with the stop operation callable on an idle session
ApiSpec == Init /\ [][ApiNext]_vars

(* --------------------------- the measurement mode ---------------------- *)
\* toggleMeasurementMode: "if (measuring) { toast.error(...); return; }"
ModeLockedNever == FALSE
ModeLocked == measuring

\* toggleMeasurementMode(mode), from the Finger and Face buttons
ToggleMeasurementMode(mode) ==
    /\ component = "V" /\ UserMayAct
    /\ IF ModeLocked
       THEN /\ toast' = "Cannot change mode during measurement"
            /\ UNCHANGED <<measurementMode, cameraActive, cameraTimers>>
       ELSE /\ measurementMode' = mode
            /\ cameraActive' = FALSE
            /\ cameraTimers' = IF cameraActive
                               THEN cameraTimers \cup {now + CAMERA_RESTART}
                               ELSE cameraTimers
            /\ UNCHANGED toast
    /\ UNCHANGED serviceVars
    /\ UNCHANGED <<call, spo2, heartScore, stressLevel, component, signal, now,
                   measuring, isRecording, enhancedProcessing, phase,
                   heartRate, confidence, hrv, hrvData, quality,
                   measurementHistory, localStorage, frameDataRef, peaksRef,
                   startTimeRef, rafPending, timers, outcome, exception>>

\* the timeout of toggleMeasurementMode: () => startCamera(), when
\* getUserMedia succeeds
CameraRestart ==
    /\ component = "V"
    /\ \E due \in cameraTimers :
          /\ due <= now
          /\ cameraTimers' = cameraTimers \ {due}
    /\ cameraActive' = TRUE
    /\ UNCHANGED serviceVars
    /\ UNCHANGED <<call, spo2, heartScore, stressLevel, measurementMode, toast,
                   component, signal, now, measuring, isRecording,
                   enhancedProcessing, phase, heartRate, confidence, hrv,
                   hrvData, quality, measurementHistory, localStorage,
                   frameDataRef, peaksRef, startTimeRef, rafPending, timers,
                   outcome, exception>>

\* a pulse is measured by AIProcessingVisualizer
ModeInit == Init /\ component = "V" /\ signal = "pulse"

ModeNext ==
    \/ StartCamera
    \/ FrameLoopStart
    \/ StartMeasurement
    \/ CalibrationTimeout
    \/ StopMeasurement
    \/ \E gap \in FrameGaps : ProcessFrame(gap)
    \/ Tick
    \/ \E mode \in {"finger", "face"} : ToggleMeasurementMode(mode)
    \/ CameraRestart

\* the sessions of AIProcessingVisualizer with the measurement mode changed
\* between and during them
ModeSpec == ModeInit /\ [][ModeNext]_vars

(* ------------------ the signal functions on numeric windows ------------ *)
\* A window is a sequence of small integers; a rational result is a record
\* [num, den] with den > 0, and 0 / 0 (NaN) is [num |-> 0, den |-> 0].
\* The windows of the peak detectors start at 0 and end with two samples
\* at 0 (the detectors' loop stops two samples before the end).
Windows ==
    {<<0>> \o w \o <<0, 0>> : w \in [1 .. (WindowLen - 3) -> 0 .. MaxSample]}

\* Two strict maxima over two neighbours on either side are at least 3
\* apart: a minDistance suppresses a peak only from 4 on.
MinDistances == (MaxMinDistance - 1) .. MaxMinDistance

ShortWindows == [1 .. ShortLen -> 0 .. MaxSample]

Range(s) == {s[i] : i \in 1 .. Len(s)}
MinOf(data) == CHOOSE x \in Range(data) : \A y \in Range(data) : x <= y
MaxOf(data) == CHOOSE x \in Range(data) : \A y \in Range(data) : x >= y

\* V: normalizeSignal: x => (x - min) / (max - min + 0.0001)
NormalizeSignal(data) ==
    [i \in 1 .. Len(data) |->
        [num |-> 10000 * (data[i] - MinOf(data)),
         den |-> 10000 * (MaxOf(data) - MinOf(data)) + 1]]

\* M: normalizeSignal: x => (x - min) / (max - min)
NormalizeSignalM(data) ==
    [i \in 1 .. Len(data) |->
        [num |-> data[i] - MinOf(data),
         den |-> MaxOf(data) - MinOf(data)]]

\* movingAverage(data, windowSize), each value times scale (a multiple of
\* every count up to windowSize, so that the values stay integers)
MovingAverage(data, windowSize, scale) ==
    [j \in 1 .. Len(data) |->
        LET start == IF j > windowSize THEN j - windowSize + 1 ELSE 1
        IN (scale * SumSeq(SubSeq(data, start, j))) \div (j - start + 1)]

\* a variant that takes a plateau for a maximum
LocalMaximaOrPlateau(smoothed) ==
    {i \in 2 .. (Len(smoothed) - 3) :
        /\ smoothed[i + 1] >= smoothed[i]
        /\ smoothed[i + 1] > smoothed[i - 1]
        /\ smoothed[i + 1] >= smoothed[i + 2]
        /\ smoothed[i + 1] > smoothed[i + 3]}

\* the indexes i (0-based, i = 2 .. length - 3) at which the smoothed
\* signal is greater than its two neighbours on either side
LocalMaxima(smoothed) ==
    {i \in 2 .. (Len(smoothed) - 3) :
        /\ smoothed[i + 1] > smoothed[i]
        /\ smoothed[i + 1] > smoothed[i - 1]
        /\ smoothed[i + 1] > smoothed[i + 2]
        /\ smoothed[i + 1] > smoothed[i + 3]}

\* the indexes at which the smoothed signal (times scale) is above the
\* fixed threshold 0.5
AboveFixed(smoothed, scale) ==
    {i \in 0 .. (Len(smoothed) - 1) : 2 * smoothed[i + 1] > scale}

\* 25 * p > 16 * q for p, q >= 0, without the products
MoreThanFourFifths(p, q) ==
    \/ p \div 16 > q \div 25
    \/ p \div 16 = q \div 25 /\ 25 * (p % 16) > 16 * (q % 25)

\* the indexes at which it is above the adaptive threshold
\* mean + 0.8 * std: with n values of sum T and x = n * value - T,
\* x > 0.8 * sqrt(n * sum of squares - T^2)
AboveAdaptive(smoothed) ==
    LET n == Len(smoothed)
        T == SumRange(smoothed, 1, n)
        D == n * SumRange(Squares(smoothed), 1, n) - T * T
    IN {i \in 0 .. (n - 1) :
           LET x == n * smoothed[i + 1] - T
           IN x > 0 /\ MoreThanFourFifths(x * x, D)}

\* findPeaksEnhanced: i + offset, offset = (a - c) / (2 * (a - 2 * b + c))
RefinedPeak(smoothed, i) ==
    LET a == smoothed[i]
        b == smoothed[i + 1]
        c == smoothed[i + 2]
        d == 2 * (2 * b - a - c)
    IN [num |-> i * d + (c - a), den |-> d]

\* findPeaks(data, 0.5, minDistance) on a numeric window (V and M alike)
findPeaks(data, minDistance) ==
    LET smoothed == MovingAverage(data, 3, 6)
        found == FindPeaksFrom(LocalMaxima(smoothed)
                                   \cap AboveFixed(smoothed, 6),
                               minDistance, 0 - minDistance, <<>>)
    IN [k \in 1 .. Len(found) |-> [num |-> found[k], den |-> 1]]

\* V: findPeaksEnhanced(data, minDistance, adaptiveThreshold)
findPeaksEnhanced(data, minDistance, adaptiveThreshold) ==
    LET smoothed == MovingAverage(data, 3, 6)
        above == IF adaptiveThreshold THEN AboveAdaptive(smoothed)
                 ELSE AboveFixed(smoothed, 6)
        found == FindPeaksFrom(LocalMaxima(smoothed) \cap above,
                               minDistance, 0 - minDistance, <<>>)
    IN [k \in 1 .. Len(found) |-> RefinedPeak(smoothed, found[k])]

\* a function is studied outside any session: the component is mounted
\* and nothing else happens
FunctionInit == Init /\ component = "V" /\ signal = "flat"

programVars ==
    <<analysis, history, maxHistoryLength, spo2, heartScore, stressLevel, measurementMode, toast, cameraTimers,
      component, signal, now, cameraActive, measuring, isRecording,
      enhancedProcessing, phase, heartRate, confidence, hrv, hrvData, quality,
      measurementHistory, localStorage, frameDataRef, peaksRef, startTimeRef,
      rafPending, timers, outcome, exception>>

\* normalizeSignal(data), of either component
CallNormalizeSignal ==
    /\ call = NoCall
    /\ \E data \in ShortWindows, of \in {"V", "M"} :
          call' = [fn |-> "normalizeSignal", of |-> of, data |-> data,
                   result |-> IF of = "V" THEN NormalizeSignal(data)
                              ELSE NormalizeSignalM(data)]
    /\ UNCHANGED programVars

\* the peak detectors on one window: findPeaks(data, 0.5, minDistance),
\* and findPeaksEnhanced(data, minDistance, adaptiveThreshold) with the
\* fixed and with the adaptive threshold
CallFindPeaks ==
    /\ call = NoCall
    /\ \E data \in Windows, minDistance \in MinDistances :
          call' = [fn |-> "findPeaks", data |-> data,
                   minDistance |-> minDistance,
                   basic |-> findPeaks(data, minDistance),
                   fixed |-> findPeaksEnhanced(data, minDistance, FALSE),
                   adaptive |-> findPeaksEnhanced(data, minDistance, TRUE)]
    /\ UNCHANGED programVars

\* the call returns
Return ==
    /\ call # NoCall
    /\ call' = NoCall
    /\ UNCHANGED programVars

SignalNext == CallNormalizeSignal \/ CallFindPeaks \/ Return

\* the calls of the signal functions on every window of the bounds
SignalSpec == FunctionInit /\ [][SignalNext]_vars

(* ------------------------- IEEE double arithmetic ---------------------- *)
\* A natural number is the sequence of its limbs of 12 bits, least
\* significant first, without leading zeros.  A positive double is [m, e]:
\* a mantissa m of exactly 53 bits and the value m * 2^e.  Results are
\* rounded to the nearest double, ties to the even mantissa.
RECURSIVE Pow2(_)
Pow2(k) == IF k = 0 THEN 1 ELSE 2 * Pow2(k - 1)

Base == Pow2(12)

RECURSIVE Trim(_)
Trim(a) ==
    IF a = <<>> \/ a[Len(a)] # 0 THEN a ELSE Trim(SubSeq(a, 1, Len(a) - 1))

\* the limbs of a natural number below 2^24
LimbsOf(n) == Trim(<<n % Base, n \div Base>>)

Limb(a, i) == IF i >= 1 /\ i <= Len(a) THEN a[i] ELSE 0

\* the number of bits of a > 0
BitLength(a) ==
    12 * (Len(a) - 1)
        + CHOOSE k \in 1 .. 12 :
              a[Len(a)] >= Pow2(k - 1) /\ a[Len(a)] < Pow2(k)

\* bit k of a, the lowest being bit 1
BitOf(a, k) == (Limb(a, ((k - 1) \div 12) + 1) \div Pow2((k - 1) % 12)) % 2

\* a * 2^k
ShiftLeft(a, k) ==
    LET q == k \div 12
        r == k % 12
    IN Trim([i \in 1 .. (Len(a) + q + 1) |->
                ((Limb(a, i - q) * Pow2(r)) % Base)
                    + (Limb(a, i - q - 1) \div Pow2(12 - r))])

\* a \div 2^k
ShiftRight(a, k) ==
    LET q == k \div 12
        r == k % 12
    IN Trim([i \in 1 .. (Len(a) - q) |->
                (Limb(a, i + q) \div Pow2(r))
                    + (Limb(a, i + q + 1) % Pow2(r)) * Pow2(12 - r)])

\* the carry into limb i of a + b
RECURSIVE AddCarry(_, _, _)
AddCarry(a, b, i) ==
    IF i = 1 THEN 0
    ELSE (Limb(a, i - 1) + Limb(b, i - 1) + AddCarry(a, b, i - 1)) \div Base

AddLimbs(a, b) ==
    Trim([i \in 1 .. ((IF Len(a) > Len(b) THEN Len(a) ELSE Len(b)) + 1) |->
             (Limb(a, i) + Limb(b, i) + AddCarry(a, b, i)) % Base])

\* the carry into limb i of a * d, for a natural number d below 2^10
RECURSIVE MulCarry(_, _, _)
MulCarry(a, d, i) ==
    IF i = 1 THEN 0
    ELSE (Limb(a, i - 1) * d + MulCarry(a, d, i - 1)) \div Base

MulLimbs(a, d) ==
    Trim([i \in 1 .. (Len(a) + 1) |->
             (Limb(a, i) * d + MulCarry(a, d, i)) % Base])

\* the remainder of the limbs i and above of a, divided by n < 2^10
RECURSIVE RemFrom(_, _, _)
RemFrom(a, n, i) ==
    IF i > Len(a) THEN 0 ELSE (Base * RemFrom(a, n, i + 1) + a[i]) % n

DivLimbs(a, n) ==
    Trim([i \in 1 .. Len(a) |->
             (Base * RemFrom(a, n, i + 1) + a[i]) \div n])

\* the double nearest to (N + f) * 2^e, for a natural number N > 0 and a
\* fraction 0 <= f < 1 that is non-zero exactly if sticky
RoundToDouble(N, sticky, e) ==
    LET len == BitLength(N)
        drop == len - 53
        kept == ShiftRight(N, drop)
        rest == sticky \/ \E j \in 1 .. (drop - 1) : BitOf(N, j) = 1
        up == BitOf(N, drop) = 1 /\ (rest \/ BitOf(kept, 1) = 1)
        m == IF up THEN AddLimbs(kept, <<1>>) ELSE kept
    IN IF len <= 53
       THEN [m |-> ShiftLeft(N, 53 - len), e |-> e - (53 - len)]
       ELSE IF BitLength(m) > 53
       THEN [m |-> ShiftRight(m, 1), e |-> e + drop + 1]
       ELSE [m |-> m, e |-> e + drop]

\* a / b for natural numbers a, b > 0 below 2^10
DoubleOfRatio(a, b) ==
    LET N == ShiftLeft(LimbsOf(a), 64)
    IN RoundToDouble(DivLimbs(N, b), RemFrom(N, b, 1) # 0, 0 - 64)

\* x * d for a natural number d > 0 below 2^10
DoubleTimes(x, d) == RoundToDouble(MulLimbs(x.m, d), FALSE, x.e)

\* x + y
DoublePlus(x, y) ==
    LET e == Min(x.e, y.e)
    IN RoundToDouble(AddLimbs(ShiftLeft(x.m, x.e - e), ShiftLeft(y.m, y.e - e)),
                     FALSE, e)

\* x / n for a natural number n > 0 below 2^10
DoubleOver(x, n) ==
    LET N == ShiftLeft(x.m, 12)
    IN RoundToDouble(DivLimbs(N, n), RemFrom(N, n, 1) # 0, x.e - 12)

\* xs.reduce((a, b) => a + b, 0) over the first k of xs (0 + x is x)
RECURSIVE DoubleSum(_, _)
DoubleSum(xs, k) ==
    IF k = 1 THEN xs[1] ELSE DoublePlus(DoubleSum(xs, k - 1), xs[k])

\* a > b
GreaterLimbs(a, b) ==
    \/ Len(a) > Len(b)
    \/ /\ Len(a) = Len(b)
       /\ \E i \in 1 .. Len(a) :
             a[i] > b[i] /\ \A j \in (i + 1) .. Len(a) : a[j] = b[j]

\* the borrow from limb i of a - b, for a >= b
RECURSIVE SubBorrow(_, _, _)
SubBorrow(a, b, i) ==
    IF i = 1 THEN 0
    ELSE IF Limb(a, i - 1) < Limb(b, i - 1) + SubBorrow(a, b, i - 1)
    THEN 1 ELSE 0

SubLimbs(a, b) ==
    Trim([i \in 1 .. Len(a) |->
             (Base + Limb(a, i) - Limb(b, i) - SubBorrow(a, b, i)) % Base])

\* x > n for a natural number n below 2^10
DoubleAbove(x, n) ==
    IF x.e >= 0 THEN GreaterLimbs(ShiftLeft(x.m, x.e), LimbsOf(n))
    ELSE GreaterLimbs(x.m, ShiftLeft(LimbsOf(n), 0 - x.e))

\* Math.abs(x - y) > n
DistanceAbove(x, y, n) ==
    LET e == Min(x.e, y.e)
        p == ShiftLeft(x.m, x.e - e)
        q == ShiftLeft(y.m, y.e - e)
    IN /\ p # q
       /\ DoubleAbove(RoundToDouble(IF GreaterLimbs(p, q) THEN SubLimbs(p, q)
                                     ELSE SubLimbs(q, p),
                                    FALSE, e), n)

\* the doubles 0 and NaN (0 / 0)
ZeroDouble == [m |-> <<>>, e |-> 0]
NaNDouble == [m |-> <<>>, e |-> NaN]

\* M: pnn50 = (nn50 / intervals.length) * 100
Pnn50(nn50, n) ==
    IF n = 0 THEN NaNDouble
    ELSE IF nn50 = 0 THEN ZeroDouble
    ELSE DoubleTimes(DoubleOfRatio(nn50, n), 100)

\* M: calculateHRV(peaks, fps) in doubles; sdnn and rmssd each by its sign
\* (0 or 1), or NaN.  sdnn = sqrt(sum of (interval - mean)^2 / n) is 0
\* exactly if every interval equals the mean as computed, rmssd exactly if
\* every two successive intervals are equal.  pnn50 is a double.
calculateHRV(peaks, fps) ==
    LET perFrame == DoubleOfRatio(1000, fps)
        intervals == [i \in 1 .. (Len(peaks) - 1) |->
                         DoubleTimes(perFrame, peaks[i + 1] - peaks[i])]
        n == Len(intervals)
        mean == DoubleOver(DoubleSum(intervals, n), n)
    IN [sdnn |-> IF n = 0 THEN NaN
                 ELSE IF \A i \in 1 .. n : intervals[i] = mean THEN 0 ELSE 1,
        rmssd |-> IF n < 2 THEN NaN
                  ELSE IF \A i \in 1 .. (n - 1) : intervals[i + 1] = intervals[i]
                  THEN 0 ELSE 1,
        pnn50 |-> Pnn50(Cardinality({i \in 1 .. (n - 1) :
                                        DistanceAbove(intervals[i + 1],
                                                      intervals[i], 50)}), n)]

(* -------------------- the estimators on lists of peaks ----------------- *)
\* the gaps between successive peaks, in frames: 13 to 20 frames are beats
\* of 90 to 138 a minute, 50 frames are a missed beat, 12 frames are
\* 0.4 * SAMPLING_RATE
Gaps == {12, 13, 15, 20, 50}

\* the peaks that start at index 2 and lie the gaps apart
PeaksOf(gaps) ==
    [i \in 1 .. (Len(gaps) + 1) |-> 2 + SumSeq(SubSeq(gaps, 1, i - 1))]

PeakLists ==
    {<<>>} \cup {PeaksOf(gaps) :
                    gaps \in UNION {[1 .. n -> Gaps] : n \in 0 .. (MaxPeaks - 1)}}

FrameCounts == {MIN_FRAMES, WINDOW_SIZE}
FrameRates == {SAMPLING_RATE, 2 * SAMPLING_RATE}

\* calculateHeartRate of V ("basic") or M, or calculateHeartRateEnhanced, on
\* peaks found in a buffer of totalFrames samples
CallCalculateHeartRate ==
    /\ call = NoCall
    /\ \E peaks \in PeakLists, totalFrames \in FrameCounts,
          fps \in FrameRates, estimator \in {"basic", "enhanced", "M"} :
          /\ \A i \in 1 .. Len(peaks) : peaks[i] < totalFrames
          /\ call' = [fn |-> "calculateHeartRate", estimator |-> estimator,
                      peaks |-> peaks, totalFrames |-> totalFrames,
                      fps |-> fps,
                      result |->
                          IF estimator = "basic"
                          THEN CalculateHeartRate(peaks, totalFrames, fps)
                          ELSE IF estimator = "M"
                          THEN CalculateHeartRateM(peaks, totalFrames, fps)
                          ELSE CalculateHeartRateEnhanced(peaks, totalFrames,
                                                          fps)]
    /\ UNCHANGED programVars

\* calculateHRV(peaks) of V, or calculateHRV(peaks, fps) of M
CallCalculateHRV ==
    /\ call = NoCall
    /\ \E peaks \in PeakLists, of \in {"V", "M"} :
          call' = [fn |-> "calculateHRV", of |-> of, peaks |-> peaks,
                   fps |-> SAMPLING_RATE,
                   result |-> IF of = "V" THEN CalculateHRV(peaks)
                              ELSE calculateHRV(peaks, SAMPLING_RATE)]
    /\ UNCHANGED programVars

\* calculateHeartScore(bpm, calculatedHrv) on an accepted reading and a
\* rounded HRV
CallCalculateHeartScore ==
    /\ call = NoCall
    /\ \E bpm \in MIN_HR .. MAX_HR, hrvValue \in 0 .. MaxHrv :
          call' = [fn |-> "calculateHeartScore", bpm |-> bpm,
                   hrvValue |-> hrvValue,
                   result |-> calculateHeartScore(bpm, hrvValue)]
    /\ UNCHANGED programVars

\* calculateStressLevel(bpm, calculatedHrv)
CallCalculateStressLevel ==
    /\ call = NoCall
    /\ \E bpm \in MIN_HR .. MAX_HR, hrvValue \in 0 .. MaxHrv :
          call' = [fn |-> "calculateStressLevel", bpm |-> bpm,
                   hrvValue |-> hrvValue,
                   result |-> calculateStressLevel(bpm, hrvValue)]
    /\ UNCHANGED programVars

\* A triangular wave of one beat a second (60 beats a minute) sampled at
\* SAMPLING_RATE over the analysis window: its crests are the samples
\* offset, offset + SAMPLING_RATE, ...
PeriodicWindow(offset) ==
    [j \in 1 .. WINDOW_SIZE |->
        LET k == (j - 1 - offset) % SAMPLING_RATE
        IN (SAMPLING_RATE \div 2) - Min(k, SAMPLING_RATE - k)]

\* the peak detector that goes with the estimator, called as processFrame
\* calls it
DetectorOf(estimator, data) ==
    IF estimator = "enhanced" THEN findPeaksEnhanced(data, MIN_DISTANCE_V, TRUE)
    ELSE IF estimator = "basic" THEN findPeaks(data, MIN_DISTANCE_V)
    ELSE findPeaks(data, MIN_DISTANCE_M)

EstimatorOf(estimator, peaks, totalFrames, fps) ==
    IF estimator = "enhanced"
    THEN CalculateHeartRateEnhanced(peaks, totalFrames, fps)
    ELSE IF estimator = "basic" THEN CalculateHeartRate(peaks, totalFrames, fps)
    ELSE CalculateHeartRateM(peaks, totalFrames, fps)

\* findPeaks and then calculateHeartRate on a periodic window
CallFindPeaksAndHeartRate ==
    /\ call = NoCall
    /\ \E offset \in 0 .. (SAMPLING_RATE - 1),
          estimator \in {"basic", "enhanced", "M"} :
          \E found \in {DetectorOf(estimator, PeriodicWindow(offset))} :
             \* every refined position of this wave is a whole index
             /\ \A k \in 1 .. Len(found) : found[k].num % found[k].den = 0
             /\ \E peaks \in {[k \in 1 .. Len(found) |->
                                   found[k].num \div found[k].den]} :
                   call' = [fn |-> "findPeaks, calculateHeartRate",
                            estimator |-> estimator, offset |-> offset,
                            peaks |-> peaks,
                            result |-> EstimatorOf(estimator, peaks,
                                                   WINDOW_SIZE, SAMPLING_RATE)]
    /\ UNCHANGED programVars

EstimatorNext ==
    \/ CallCalculateHeartRate
    \/ CallFindPeaksAndHeartRate
    \/ CallCalculateHRV
    \/ CallCalculateHeartScore
    \/ CallCalculateStressLevel
    \/ Return

\* the calls of the estimators on every list of peaks of the bounds
EstimatorSpec == FunctionInit /\ [][EstimatorNext]_vars

(* ----------------------- lib/geminiService.ts -------------------------- *)
\* what the service leaves alone: the page
pageVars ==
    <<call, spo2, heartScore, stressLevel, measurementMode, toast,
      cameraTimers, component, signal, now, cameraActive, measuring,
      isRecording, enhancedProcessing, phase, heartRate, confidence, hrv,
      hrvData, quality, measurementHistory, localStorage, frameDataRef,
      peaksRef, startTimeRef, rafPending, timers, outcome, exception>>

\* startContinuousVideoAnalysis(videoElement, onResult, interval, prompt):
\* without an API it reports that through onResult and returns a handle
\* whose stop does nothing; otherwise it sets the interval
StartContinuousVideoAnalysis ==
    /\ analysis = NoAnalysis
    /\ \E geminiApi \in BOOLEAN :
          analysis' = IF geminiApi
                      THEN [analysis EXCEPT !.intervalId = "set"]
                      ELSE [analysis EXCEPT !.intervalId = "unset",
                                            !.onResult = 1]
    /\ UNCHANGED <<history, maxHistoryLength>>
    /\ UNCHANGED pageVars

\* the interval fires: analyzeFrame up to its await.  It returns at once
\* if an analysis is under way or the video is paused or ended; without
\* an image the finally block resets isAnalyzing in the same step
AnalyzeFrame ==
    /\ analysis.intervalId = "set"
    /\ analysis.onResult < MaxResults
    /\ \E playing \in BOOLEAN, imageData \in BOOLEAN :
          analysis' = IF analysis.isAnalyzing \/ ~playing THEN analysis
                      ELSE [analysis EXCEPT !.isAnalyzing = imageData]
    /\ UNCHANGED <<history, maxHistoryLength>>
    /\ UNCHANGED pageVars

\* processImageWithGemini resolves (it catches its own errors and returns
\* a text): analyzeFrame resumes, calls onResult(analysis) and resets
\* isAnalyzing in its finally block
AnalyzeFrameResumes ==
    /\ analysis.isAnalyzing
    /\ analysis' = [analysis EXCEPT !.isAnalyzing = FALSE,
                                    !.onResult = @ + 1]
    /\ UNCHANGED <<history, maxHistoryLength>>
    /\ UNCHANGED pageVars

\* stop() of the handle: clearInterval(intervalId); the handle returned
\* without an API does nothing
StopAnalysis ==
    /\ analysis.intervalId # "none"
    /\ analysis' = [analysis EXCEPT
                       !.intervalId = IF @ = "unset" THEN @ ELSE "cleared",
                       !.stopped = TRUE]
    /\ UNCHANGED <<history, maxHistoryLength>>
    /\ UNCHANGED pageVars

\* trimHistory, on the history h
TrimHistory(h, max) ==
    IF Len(h) > max
    THEN LET excessPairs == (Len(h) - max) \div 2
         IN IF excessPairs > 0
            THEN SubSeq(h, excessPairs * 2 + 1, Len(h))
            ELSE h
    ELSE h

\* new GeminiConversationManager(maxHistoryLength)
NewConversationManager ==
    /\ maxHistoryLength = Null
    /\ maxHistoryLength' \in {ShortHistoryLength, DEFAULT_MAX_HISTORY}
    /\ history' = <<>>
    /\ UNCHANGED analysis
    /\ UNCHANGED pageVars

\* addUserMessage(message)
AddUserMessage ==
    /\ maxHistoryLength # Null
    /\ history' = TrimHistory(Append(history, "user"), maxHistoryLength)
    /\ UNCHANGED <<analysis, maxHistoryLength>>
    /\ UNCHANGED pageVars

\* addModelResponse(message)
AddModelResponse ==
    /\ maxHistoryLength # Null
    /\ history' = TrimHistory(Append(history, "model"), maxHistoryLength)
    /\ UNCHANGED <<analysis, maxHistoryLength>>
    /\ UNCHANGED pageVars

\* clearHistory()
ClearHistory ==
    /\ maxHistoryLength # Null
    /\ history' = <<>>
    /\ UNCHANGED <<analysis, maxHistoryLength>>
    /\ UNCHANGED pageVars

ServiceNext ==
    \/ StartContinuousVideoAnalysis
    \/ AnalyzeFrame
    \/ AnalyzeFrameResumes
    \/ StopAnalysis
    \/ NewConversationManager
    \/ AddUserMessage
    \/ AddModelResponse
    \/ ClearHistory

\* one handle of the continuous analysis and one conversation manager
ServiceSpec == FunctionInit /\ [][ServiceNext]_vars

(* ----------------------- vocabulary of the claims ---------------------- *)
\* a measurement session is running
Recording == IF component = "V" THEN measuring ELSE isRecording

\* the session is idle: V shows the phase 'idle'; M, whose phases have no
\* idle, shows "Idle" while it is not recording
Idle == IF component = "V" THEN phase = "idle" ELSE ~isRecording

\* the confidence floor of the component, in hundredths of a percent
ConfidenceFloor ==
    IF component = "V" THEN Pct(END_FLOOR_V) ELSE Pct(END_FLOOR_M)

\* the controller holds an accepted reading
AcceptedReading == heartRate # Null /\ confidence > ConfidenceFloor

\* a step in which a frame is processed
FrameStep == rafPending /\ now' > now

\* a step in which the running session reaches its end in a frame
SessionEnd == Recording /\ ~Recording' /\ FrameStep

\* a step in which the user stops the running session
StopCommand == Recording /\ ~Recording' /\ now' = now

\* a step in which the user starts a session
StartCommand == ~Recording /\ Recording'

\* a step that changes the history or what is persisted of it
HistoryChanges ==
    \/ measurementHistory' # measurementHistory
    \/ localStorage' # localStorage

Records(h) == {h[i] : i \in 1 .. Len(h)}

(* -------------------------------- claims ------------------------------- *)
\* the history after the step is the history before it with exactly one
\* new Measurement, that of the reading held when the session ended
OneMeasurementAppended ==
    /\ Len(measurementHistory') =
           Min(Len(measurementHistory) + 1, HISTORY_SIZE)
    /\ \E i \in 1 .. Len(measurementHistory') :
          /\ measurementHistory'[i] = Measurement(now', heartRate, confidence)
          /\ \A j \in 1 .. Len(measurementHistory') :
                j # i => measurementHistory'[j] \in Records(measurementHistory)

CompletesAccepted ==
    Recording /\ ~Recording' /\ phase' = "complete" /\ AcceptedReading

\* a step in which the user presses Save while a heart rate is displayed
SavePressed ==
    /\ component = "M" /\ heartRate # Null
    /\ now' = now /\ isRecording' = isRecording

C4_HistoryCapacity ==
    [][/\ Len(measurementHistory') <= HISTORY_SIZE
       /\ (measurementHistory' # measurementHistory
            /\ Len(measurementHistory) = HISTORY_SIZE
           => /\ Len(measurementHistory') = HISTORY_SIZE
              /\ measurementHistory'[1].timestamp = now'
              /\ \A i \in 2 .. HISTORY_SIZE :
                    measurementHistory'[i] = measurementHistory[i - 1])]_vars

\* a full stored history has taken a new record and lost its oldest one
C4_Witness ==
    /\ Len(measurementHistory) = HISTORY_SIZE
    /\ measurementHistory[1].timestamp >= 0
    /\ measurementHistory[HISTORY_SIZE] = StoredHistory(HISTORY_SIZE)[HISTORY_SIZE - 1]

\* C5: an explicit stop, in whichever state it is issued, takes the
\* session to idle.
C5_StopLeadsToIdle ==
    [][StopCommand => Idle']_vars

\* the session has been stopped and not been started again
Stopped ==
    IF component = "V" THEN ~measuring /\ phase # "idle" ELSE ~isRecording

\* C6: after a stop no per-frame callback of the session runs again: the
\* sample buffer and the peak list are not mutated until the next start.
C6_NoFrameAfterStop ==
    [][Stopped =>
          \/ frameDataRef' = frameDataRef /\ peaksRef' = peaksRef
          \/ StartCommand]_vars

\* the clock is bounded: a session can reach its end if it starts by then
StartsInTime == startTimeRef + MEASUREMENT_DURATION <= MaxNow

\* C7: with requested frames delivered, every started session that is not
\* stopped comes to its end, and does so in the first frame whose elapsed
\* time is at least MEASUREMENT_DURATION.
C7_SessionTerminates ==
    /\ (Recording /\ StartsInTime) ~> ~Recording
    /\ [][Recording /\ FrameStep
           /\ now' - startTimeRef >= MEASUREMENT_DURATION
          => ~Recording']_vars

\* C8: a start puts the session in calibrating with an empty sample buffer,
\* an empty peak list and every metric estimate cleared, whatever the
\* previous session left.
C8_StartResets ==
    [][StartCommand =>
          /\ phase' = "calibrating"
          /\ frameDataRef' = <<>>
          /\ peaksRef' = <<>>
          /\ heartRate' = Null
          /\ confidence' = 0
          /\ hrv' = Null
          /\ hrvData' = NullHrv
          /\ quality' = {}]_vars

\* C9: no exception escapes the per-frame processing, for any window and
\* with either processing variant.
C9_NoException == ~exception

\* C10: the sample buffer never holds more than WINDOW_SIZE samples, and a
\* sample arriving at a full buffer evicts the oldest one.
C10_BufferBounded ==
    [][/\ Len(frameDataRef') <= WINDOW_SIZE
       /\ (Len(frameDataRef) = WINDOW_SIZE /\ frameDataRef' # frameDataRef
            /\ frameDataRef' # <<>>
           => frameDataRef' =
                 Append(Tail(frameDataRef), NextSample(frameDataRef)))]_vars

\* C11: calling stop on a session that is already idle is a no-op: the
\* phase, the buffers, the metric estimates and the history are unchanged
\* and no error is raised or reported.
C11_StopOnIdleIsNoOp ==
    [][StopWhenIdle =>
          /\ UNCHANGED <<phase, frameDataRef, peaksRef, heartRate, confidence,
                         hrv, hrvData, quality, measurementHistory,
                         localStorage, outcome>>
          /\ ~exception']_vars

\* the peaks that the frame of this step found
FramePeaks ==
    IF component = "V" THEN peaksRef'
    ELSE FindPeaks(frameDataRef', MIN_DISTANCE_M)

\* the reading that the frame of this step computes from these peaks
ReadingOf(peaks) ==
    IF component = "M"
    THEN CalculateHeartRateM(peaks, WINDOW_SIZE, SAMPLING_RATE)
    ELSE IF enhancedProcessing
    THEN CalculateHeartRateEnhanced(peaks, Len(frameDataRef'), SAMPLING_RATE)
    ELSE CalculateHeartRate(peaks, Len(frameDataRef'), SAMPLING_RATE)

\* the reading that the frame of this step computed
FrameReading == ReadingOf(FramePeaks)

\* a step in which a frame of a running session calls the estimator
FrameComputes ==
    /\ FrameStep /\ Recording
    /\ IF component = "V"
       THEN cameraActive /\ Len(frameDataRef') >= MIN_FRAMES
       ELSE /\ Len(frameDataRef') >= WINDOW_SIZE
            /\ ~(phase = "calibrating"
                  /\ now' - startTimeRef < CALIBRATION_DURATION)

\* a step in which a frame of a running session computes a reading
FrameProcessed == FrameComputes /\ ~FrameReading.threw

\* the floor above which the confidence of a per-frame reading must lie
AcceptanceFloor == IF component = "V" THEN 0 ELSE Pct(FRAME_FLOOR_M)

\* a step in which a frame replaces the reading that the session holds
ReadingTaken ==
    FrameStep /\ (heartRate' # heartRate \/ confidence' # confidence)

\* C16: a per-frame reading updates the session's heart-rate estimate only
\* if its bpm is within [MIN_HR, MAX_HR] and its confidence is above the
\* acceptance floor; so the reported heart rate is always either absent or
\* within [MIN_HR, MAX_HR].
C16_OnlyValidReadingsAccepted ==
    /\ [](heartRate = Null \/ (heartRate >= MIN_HR /\ heartRate <= MAX_HR))
    /\ [][ReadingTaken =>
            /\ heartRate' >= MIN_HR /\ heartRate' <= MAX_HR
            /\ confidence' > AcceptanceFloor
            /\ heartRate' = FrameReading.bpm
            /\ confidence' = FrameReading.conf]_vars

\* a running session holds a reading that one of its frames computed from
\* an uneven pulse
C16_Witness ==
    /\ Recording /\ signal = "uneven"
    /\ heartRate # Null /\ heartRate >= MIN_HR /\ heartRate <= MAX_HR
    /\ confidence > AcceptanceFloor /\ confidence < Pct(100)

\* C17: after any processed frame of a measuring session whose computed
\* confidence is below 30, the quality flags of the session include
\* "Low signal quality".
C17_LowConfidenceFlagged ==
    [][FrameProcessed /\ phase = "measuring" /\ FrameReading.conf < Pct(30)
          => "Low signal quality" \in quality']_vars

\* the frame of this step, having found these peaks, calls the HRV
\* estimator: it does so for an accepted reading
HrvEstimatorRunsOn(peaks) ==
    \E reading \in {ReadingOf(peaks)} :
       /\ ~reading.threw
       /\ IF component = "V" THEN AcceptedV(reading.bpm, reading.conf)
          ELSE AcceptedM(reading.bpm, reading.conf)

IsNaN(q) == q.den = 0

\* the positions are strictly increasing and at least minDistance apart
Spaced(peaks, minDistance) ==
    \A k, l \in 1 .. Len(peaks) :
       k < l =>
          LET p == peaks[k]
              q == peaks[l]
          IN /\ q.num * p.den > p.num * q.den
             /\ q.num * p.den - p.num * q.den >= minDistance * p.den * q.den

\* C12: for every input signal, every minDistance and both threshold
\* policies, the peak positions returned by the peak detector, as returned
\* (sub-sample refined positions included), are strictly increasing and
\* any two of them differ by at least minDistance.
C12_PeaksSpaced ==
    call.fn = "findPeaks" =>
       \A peaks \in {call.basic, call.fixed, call.adaptive} :
          Spaced(peaks, call.minDistance)

\* C14: for every non-degenerate window (max > min) every value of the
\* output of normalize lies in [0, 1], the least is exactly 0 and the
\* greatest is exactly 1.
C14_NormalizeUnitRange ==
    call.fn = "normalizeSignal" /\ MaxOf(call.data) > MinOf(call.data) =>
       /\ \A i \in 1 .. Len(call.result) :
             /\ ~IsNaN(call.result[i])
             /\ call.result[i].num >= 0
             /\ call.result[i].num <= call.result[i].den
       /\ \E i \in 1 .. Len(call.result) : call.result[i].num = 0
       /\ \E i \in 1 .. Len(call.result) :
             call.result[i].num = call.result[i].den

\* C15: for a flat window (max = min) normalize returns an all-zero
\* sequence of the same length: no NaN appears in its output.
C15_FlatNormalizesToZero ==
    call.fn = "normalizeSignal" /\ MaxOf(call.data) = MinOf(call.data) =>
       /\ Len(call.result) = Len(call.data)
       /\ \A i \in 1 .. Len(call.result) :
             ~IsNaN(call.result[i]) /\ call.result[i].num = 0

\* the least number of peaks from which the estimator computes a reading
MinPeaks(estimator) == IF estimator = "enhanced" THEN 4 ELSE 3

\* C13: heartRate returns (0, 0) whenever fewer than the minimum number of
\* peaks is supplied (3 for the basic estimators, 4 for the enhanced one),
\* for every totalFrames and fps.
C13_FewPeaksNoReading ==
    call.fn = "calculateHeartRate"
        /\ Len(call.peaks) < MinPeaks(call.estimator) =>
       call.result = [bpm |-> 0, conf |-> 0, threw |-> FALSE]

\* the enhanced estimator has returned (0, 0) for three peaks, from which
\* the basic one computes a reading
C13_Witness ==
    /\ call.fn = "calculateHeartRate" /\ call.estimator = "enhanced"
    /\ Len(call.peaks) = 3
    /\ call.result = [bpm |-> 0, conf |-> 0, threw |-> FALSE]
    /\ CalculateHeartRate(call.peaks, call.totalFrames, call.fps).bpm > 0

\* the peaks are at least 4 and all their gaps are equal
Regular(peaks) ==
    /\ Len(peaks) >= 4
    /\ \A i \in 2 .. (Len(peaks) - 1) :
          peaks[i + 1] - peaks[i] = peaks[i] - peaks[i - 1]

\* C18: calculateHRV on peaks with perfectly regular spacing (at least 4
\* peaks) returns rmssd = 0 and sdnn = 0.
C18_RegularPeaksZeroHrv ==
    call.fn = "calculateHRV" /\ Regular(call.peaks) =>
       IF call.of = "V" THEN call.result = 0
       ELSE call.result.rmssd = 0 /\ call.result.sdnn = 0

\* the confidence of the formula: 100 * (1 - v) * (1 - d) clamped to
\* [0, 100], v = stddev / mean of the valid intervals and
\* d = |1 - (peaks per second) / (bpm / 60)|
ClaimedConfidence(peaks, totalFrames, fps, bpm) ==
    ConfidenceOf(Variability(ValidIntervals(Intervals(peaks), fps)),
                 Len(peaks), totalFrames, fps, bpm)

\* C20: for every peak list that yields a reading, the confidence returned
\* equals 100 * (1 - v) * (1 - d) clamped to [0, 100] (to within one
\* percent, for the rounding), and is a number within [0, 100].
C20_ConfidenceFormula ==
    call.fn = "calculateHeartRate" /\ ~call.result.threw
        /\ call.result.bpm > 0 =>
       /\ call.result.conf >= 0 /\ call.result.conf <= Pct(100)
       /\ Abs(call.result.conf
                - ClaimedConfidence(call.peaks, call.totalFrames, call.fps,
                                    call.result.bpm)) <= Pct(1)

\* the interpretation documented for a heart score
InterpretationOf(score) ==
    IF score >= 90 THEN "Excellent"
    ELSE IF score >= 75 THEN "Good"
    ELSE IF score >= 60 THEN "Fair"
    ELSE IF score >= 40 THEN "Poor"
    ELSE "Concerning"

\* the level documented for a stress score
LevelOf(score) ==
    IF score < 30 THEN "low" ELSE IF score < 60 THEN "medium" ELSE "high"

\* C21: the heart score returned by calculateHeartScore is within [0, 100]
\* and its interpretation follows the returned score (Excellent from 90,
\* Good from 75, Fair from 60, Poor from 40, Concerning below); the level
\* returned by calculateStressLevel is low for a stress score below 30,
\* medium below 60 and high otherwise.
C21_ScoresBanded ==
    /\ call.fn = "calculateHeartScore" =>
           /\ call.result.score >= 0 /\ call.result.score <= 100
           /\ call.result.interpretation = InterpretationOf(call.result.score)
    /\ call.fn = "calculateStressLevel" =>
           call.result.level = LevelOf(call.result.score)

\* C22: for a periodic signal sampled at 30 fps whose peaks are exactly 30
\* samples apart (60 beats a minute) over the analysis window, findPeaks
\* followed by heartRate returns a bpm within 2 of 60 and a confidence
\* greater than 70.
C22_PeriodicSignalRecovered ==
    call.fn = "findPeaks, calculateHeartRate" =>
       /\ ~call.result.threw
       /\ Abs(call.result.bpm - 60) <= 2
       /\ call.result.conf > Pct(70)

\* the fixed calibration duration of the component
CalibrationMs ==
    IF component = "V" THEN CALIBRATION_TIMEOUT ELSE CALIBRATION_DURATION

\* C23: in every session the phase changes from calibrating to measuring
\* only after the calibration duration (3000 ms) has elapsed since that
\* session's own start command, whatever the interleaving of start, stop,
\* frame and timer events.
C23_CalibrationLastsItsDuration ==
    [][phase = "calibrating" /\ phase' = "measuring" =>
          now' - startTimeRef >= CalibrationMs]_vars

\* the intervals that are within 2 * stddev of the mean and within
\* 0.4 * fps <= interval <= 1.5 * fps
RetainedInclusive(intervals, fps) ==
    LET n == Len(intervals)
        S == SumSeq(intervals)
        D == ScaledVariance(intervals)
        Keep(i) == /\ (n * i - S) * (n * i - S) <= 4 * D
                   /\ 10 * i >= 4 * fps
                   /\ 2 * i <= 3 * fps
    IN SelectSeq(intervals, Keep)

\* the least number of surviving intervals from which a reading is computed
MinIntervals(estimator) == IF estimator = "enhanced" THEN 3 ELSE 2

\* C24: heartRate retains exactly the intervals that are within 2 * stddev
\* of the mean and satisfy 0.4 * fps <= interval <= 1.5 * fps, both bounds
\* included (its bpm is the one of their mean), and returns (0, 0) when
\* fewer than 2 (basic) or 3 (enhanced) intervals survive.
C24_IntervalsRetained ==
    call.fn = "calculateHeartRate" /\ Len(call.peaks) >= 2 =>
       \A kept \in {RetainedInclusive(Intervals(call.peaks), call.fps)} :
          IF Len(kept) < MinIntervals(call.estimator)
          THEN call.result.bpm = 0 /\ call.result.conf = 0
          ELSE call.result.bpm
                   = RoundDiv(call.fps * 60 * Len(kept), SumSeq(kept))

sessionVars ==
    <<measuring, phase, heartRate, confidence, hrv, spo2, heartScore,
      stressLevel, quality, frameDataRef, peaksRef, startTimeRef, timers,
      measurementHistory, outcome>>

\* C28: while a measurement is in progress toggleMeasurementMode changes
\* nothing: the capture mode, the camera (its activity flag and its pending
\* restarts) and the session state stay as they were.
C28_ModeLockedWhileMeasuring ==
    [][measuring /\ (\E mode \in {"finger", "face"} :
                        ToggleMeasurementMode(mode)) =>
          /\ UNCHANGED <<measurementMode, cameraActive, cameraTimers>>
          /\ UNCHANGED sessionVars]_vars

\* toggleMeasurementMode has refused to act during a measurement with the
\* camera on
C28_Witness ==
    /\ measuring /\ cameraActive
    /\ toast = "Cannot change mode during measurement"

\* the peaks of the enhanced detector in the call at hand, with either
\* threshold
EnhancedPeaks ==
    IF call # NoCall /\ call.fn = "findPeaks"
    THEN Range(call.fixed) \cup Range(call.adaptive)
    ELSE {}

\* C26: every position returned by findPeaksEnhanced is a finite number:
\* the denominator 2 * (a - 2 * b + c) of its sub-sample offset is not
\* zero, and the position is within half a sample of the index of the
\* maximum (between index 2 and the last index but two)
C26_OffsetDenominatorNonZero ==
    \A q \in EnhancedPeaks :
        /\ q.den # 0
        /\ 2 * q.num >= 3 * q.den
        /\ 2 * q.num <= (2 * WindowLen - 5) * q.den

\* findPeaksEnhanced has returned a peak which the offset moved off its
\* index
C26_Witness ==
    \E q \in EnhancedPeaks : q.den > 0 /\ q.num % q.den # 0

\* 100 * count / differences as a double, rounded once or after the
\* division
ClaimedPnn50(count, differences) ==
    IF count = 0 THEN {ZeroDouble}
    ELSE {DoubleOfRatio(100 * count, differences),
          DoubleTimes(DoubleOfRatio(count, differences), 100)}

\* C27: the pNN50 returned by calculateHRV of HeartRateMonitor, on peaks
\* with at least one successive interval difference, is 100 times the
\* number of successive differences of more than 50 ms in absolute value,
\* divided by the number of successive differences
C27_Pnn50OverDifferences ==
    call.fn = "calculateHRV" /\ call.of = "M" /\ Len(call.peaks) >= 3 =>
       LET gaps == Intervals(call.peaks)
           differences == Len(gaps) - 1
           count == Cardinality(
                        {i \in 1 .. differences :
                            1000 * Abs(gaps[i + 1] - gaps[i]) > 50 * call.fps})
       IN call.result.pnn50 \in ClaimedPnn50(count, differences)

\* C29: once stop() of the handle has been called, onResult is not
\* invoked again
C29_NoResultAfterStop ==
    [][analysis.stopped => analysis'.onResult = analysis.onResult]_vars

\* C30: the history of a conversation manager holds at most
\* maxHistoryLength messages after every call
C30_HistoryAtMostMax ==
    maxHistoryLength # Null => Len(history) <= maxHistoryLength

=============================================================================
